---------------------------- MODULE Spec2Model ----------------------------
(***************************************************************************)
(* A model of rtodo: the identifier pool (IdPool), the path resolver       *)
(* (TodoList::parse_path) and the list engine (TodoList::add_item,         *)
(* edit_item, complete_item, remove_item, list_items, todo_len) of         *)
(* src/src/todo_list.rs, the deadline parser and the file adapter of       *)
(* src/src/utils.rs, and the Add, Edit and List arms of src/src/main.rs.   *)
(*                                                                         *)
(* Rust values are modelled as follows.                                    *)
(*   Option<T>   None is <<>>, Some(x) is <<x>>                            *)
(*   String      a sequence of one-character strings                       *)
(*   Vec<T>      a sequence                                                *)
(*   HashSet<T>  a set                                                     *)
(*   Result<T>   a record with ok, err and the value's fields              *)
(*   &mut self   the callee returns the updated value, also on an error    *)
(***************************************************************************)
EXTENDS Integers, Sequences, FiniteSets, TLC

VARIABLES
    pool,        \* PoolSpec: one IdPool driven directly
    pool_prev,   \* PoolSpec: the pool before the last call
    pool_last,   \* PoolSpec: the last call and what it returned
    pool_log,    \* PoolSpec: the released identifiers not acquired since, oldest first
    todo_list,   \* Spec: the root TodoList
    last,        \* Spec: the last call on the engine and what it returned
    watch,       \* Spec: per list, the identifiers removed from it since its last add
    ledger,      \* IdSpec: per list, the most items it has held and the identifiers issued to it
    SHOW_COMPLETE, \* the static AtomicBool of main.rs that list_items reads
    deadline_call, \* DeadlineSpec: the last deadline text parsed, the clock, the result
    file,        \* RunSpec: the JSON file, None while it does not exist
    procs,       \* RunSpec: per invocation of the program, where it is and what it holds
    events       \* RunSpec: the loads and saves so far, in order

pool_vars == <<pool, pool_prev, pool_last, pool_log>>

engine_vars == <<todo_list, last, watch, ledger, SHOW_COMPLETE>>

deadline_vars == <<deadline_call>>

run_vars == <<file, procs, events>>

vars == <<pool_vars, engine_vars, deadline_vars, run_vars>>

(***************************************************************************)
(* Bounds of the model.                                                    *)
(***************************************************************************)
\* PoolSpec: acquire_id issues no new identifier once next_id has reached this value
MaxNextId == 4

\* IdSpec: add_item is not called on a tree that holds this many items
MaxItems == 3

\* Spec: add_item is not called on a tree that holds this many items
MaxEdited == 2

\* what a path segment can be: an index or identifier, a non-number, nothing
Segments == {<<"0">>, <<"1">>, <<"2">>, <<"x">>, <<>>}

\* what the first of two path segments can be: sub-lists are made under the
\* item at position 0 only
FirstSegments == {<<"0">>, <<"x">>, <<>>}

Descriptions == {"a", "b"}

\* the moments a deadline can name
Moments == {1}

(***************************************************************************)
(* Option, Result                                                          *)
(***************************************************************************)
None == <<>>

Some(x) == <<x>>

NoErr == [kind |-> "none", index |-> 0, depth |-> 0]

Err(kind) == [kind |-> kind, index |-> 0, depth |-> 0]

(***************************************************************************)
(* IdPool                                                                  *)
(***************************************************************************)
IdPool_new == [next_id |-> 0, recycled_ids |-> <<>>, used_ids |-> {}]

Range(s) == {s[i] : i \in 1..Len(s)}

\* an acquire that never takes a recycled identifier
acquire_id_never_recycles(p) ==
    [id |-> p.next_id,
     pool |-> [p EXCEPT !.next_id = @ + 1, !.used_ids = @ \cup {p.next_id}]]

\* an acquire that takes the oldest recycled identifier instead of the newest
acquire_id_fifo(p) ==
    IF p.recycled_ids # <<>>
    THEN LET id == p.recycled_ids[1]
         IN  [id   |-> id,
              pool |-> [p EXCEPT !.recycled_ids = Tail(@),
                                 !.used_ids = @ \cup {id}]]
    ELSE LET id == p.next_id
         IN  [id   |-> id,
              pool |-> [p EXCEPT !.next_id = @ + 1,
                                 !.used_ids = @ \cup {id}]]

\* an acquire that issues next_id without moving past it
acquire_id_stale(p) ==
    IF p.recycled_ids # <<>>
    THEN LET id == p.recycled_ids[Len(p.recycled_ids)]
         IN  [id   |-> id,
              pool |-> [p EXCEPT !.recycled_ids = SubSeq(@, 1, Len(@) - 1),
                                 !.used_ids = @ \cup {id}]]
    ELSE LET id == p.next_id
         IN  [id   |-> id,
              pool |-> [p EXCEPT !.used_ids = @ \cup {id}]]

\* Vec::pop takes the last element
acquire_id(p) ==
    IF p.recycled_ids # <<>>
    THEN LET id == p.recycled_ids[Len(p.recycled_ids)]
         IN  [id   |-> id,
              pool |-> [p EXCEPT !.recycled_ids = SubSeq(@, 1, Len(@) - 1),
                                 !.used_ids = @ \cup {id}]]
    ELSE LET id == p.next_id
         IN  [id   |-> id,
              pool |-> [p EXCEPT !.next_id = @ + 1,
                                 !.used_ids = @ \cup {id}]]

\* a release that forgets to take the id out of used_ids
release_id_keeps_used(p, id) ==
    IF id \notin p.used_ids
    THEN [ok |-> FALSE, err |-> Err("IdNotInUse"), pool |-> p]
    ELSE [ok |-> TRUE, err |-> NoErr,
          pool |-> [p EXCEPT !.recycled_ids = Append(@, id)]]

\* a release without the used_ids guard
release_id_unguarded(p, id) ==
    [ok |-> TRUE, err |-> NoErr,
     pool |-> [p EXCEPT !.used_ids = @ \ {id},
                        !.recycled_ids = Append(@, id)]]

release_id(p, id) ==
    IF id \notin p.used_ids
    THEN [ok |-> FALSE, err |-> Err("IdNotInUse"), pool |-> p]
    ELSE [ok |-> TRUE, err |-> NoErr,
          pool |-> [p EXCEPT !.used_ids = @ \ {id},
                             !.recycled_ids = Append(@, id)]]

(***************************************************************************)
(* Strings: str::split, str::rsplit_once, str::parse::<usize>              *)
(***************************************************************************)
Digits == <<"0", "1", "2", "3", "4", "5", "6", "7", "8", "9">>

IsDigit(c) == \E d \in 1..Len(Digits) : Digits[d] = c

DigitValue(c) == (CHOOSE d \in 1..Len(Digits) : Digits[d] = c) - 1

\* the first position of c in s, 0 when c does not occur
find(s, c) ==
    IF \E i \in 1..Len(s) : s[i] = c
    THEN CHOOSE i \in 1..Len(s) : s[i] = c /\ \A j \in 1..(i - 1) : s[j] # c
    ELSE 0

\* the last position of c in s, 0 when c does not occur
rfind(s, c) ==
    IF \E i \in 1..Len(s) : s[i] = c
    THEN CHOOSE i \in 1..Len(s) : s[i] = c /\ \A j \in (i + 1)..Len(s) : s[j] # c
    ELSE 0

RECURSIVE split(_, _)
\* str::split: "" splits into one empty piece, "0:" into "0" and ""
split(s, c) ==
    LET i == find(s, c)
    IN  IF i = 0 THEN <<s>>
        ELSE <<SubSeq(s, 1, i - 1)>> \o split(SubSeq(s, i + 1, Len(s)), c)

rsplit_once(s, c) ==
    LET i == rfind(s, c)
    IN  IF i = 0 THEN None
        ELSE Some(<<SubSeq(s, 1, i - 1), SubSeq(s, i + 1, Len(s))>>)

RECURSIVE decimal(_)
decimal(s) ==
    IF s = <<>> THEN 0
    ELSE 10 * decimal(SubSeq(s, 1, Len(s) - 1)) + DigitValue(s[Len(s)])

\* usize::from_str: an optional leading "+", then one or more decimal digits.
\* The paths of the model are too short for a value to pass usize::MAX.
parse_usize(s) ==
    LET body == IF s # <<>> /\ s[1] = "+" THEN Tail(s) ELSE s
    IN  IF body = <<>> \/ \E i \in 1..Len(body) : ~IsDigit(body[i])
        THEN [ok |-> FALSE, val |-> 0]
        ELSE [ok |-> TRUE, val |-> decimal(body)]

(***************************************************************************)
(* TodoItem, TodoList                                                      *)
(***************************************************************************)
TodoList_new == [items |-> <<>>, id_pool |-> IdPool_new]

\* chrono's DateTime<Local>::to_string, on moments numbered 1, 2, ...
DateTime_to_string(t) == ToString(t)

OutOfBounds(index, depth) == [kind |-> "IndexOutOfBounds", index |-> index, depth |-> depth]

NoSublist(index) == [kind |-> "NoSublistAtIndex", index |-> index, depth |-> 0]

NoItem == [id |-> 0, description |-> "", completed |-> FALSE,
           deadline |-> None, sub_list |-> None]

Failed(err) == [ok |-> FALSE, err |-> err, loc |-> <<>>, item |-> NoItem]

\* a walk that takes the item before the addressed one
RECURSIVE walk_off_by_one(_, _, _)
walk_off_by_one(current_list, indices, depth) ==
    LET index == indices[depth + 1]
    IN  IF index >= Len(current_list.items)
        THEN Failed(OutOfBounds(index, depth))
        ELSE IF depth = Len(indices) - 1
        THEN [ok |-> TRUE, err |-> NoErr, loc |-> indices,
              item |-> current_list.items[IF index = 0 THEN 1 ELSE index]]
        ELSE LET item == current_list.items[index + 1]
             IN  IF item.sub_list = None
                 THEN Failed(NoSublist(index))
                 ELSE walk_off_by_one(item.sub_list[1], indices, depth + 1)

RECURSIVE walk(_, _, _)
\* the loop of parse_path from its iteration `depth` on; the &mut TodoItem it
\* returns is the item together with the indices that lead to it
walk(current_list, indices, depth) ==
    LET index == indices[depth + 1]
    IN  IF index >= Len(current_list.items)
        THEN Failed(OutOfBounds(index, depth))
        ELSE IF depth = Len(indices) - 1
        THEN [ok |-> TRUE, err |-> NoErr, loc |-> indices,
              item |-> current_list.items[index + 1]]
        ELSE LET item == current_list.items[index + 1]
             IN  IF item.sub_list = None
                 THEN Failed(NoSublist(index))
                 ELSE walk(item.sub_list[1], indices, depth + 1)

parse_path(self, path) ==
    LET segments == split(path, ":")
        parsed == [i \in 1..Len(segments) |-> parse_usize(segments[i])]
    IN  IF \E i \in 1..Len(segments) : ~parsed[i].ok
        THEN Failed(Err("InvalidPathFormat"))
        ELSE LET indices == [i \in 1..Len(segments) |-> parsed[i].val]
             IN  IF indices = <<>>
                 THEN Failed(Err("PathNotFound"))
                 ELSE walk(self, indices, 0)

RECURSIVE ReplaceItemAt(_, _, _)
\* a write through the &mut TodoItem that parse_path returned
ReplaceItemAt(list, loc, item) ==
    IF Len(loc) = 1
    THEN [list EXCEPT !.items[loc[1] + 1] = item]
    ELSE [list EXCEPT !.items[loc[1] + 1].sub_list =
                          Some(ReplaceItemAt(@[1], Tail(loc), item))]

\* Option::get_or_insert
get_or_insert(opt, value) == IF opt = None THEN value ELSE opt[1]

(***************************************************************************)
(* The engine's operations.  Each returns the list as the call leaves it   *)
(* (self is &mut), also when the call returns an error.                    *)
(***************************************************************************)
Rejected(self, err) == [ok |-> FALSE, err |-> err, list |-> self, item |-> NoItem]

\* a push that puts the new item in front of the others
push_item_front(list, description, deadline) ==
    LET a == acquire_id(list.id_pool)
        time == IF deadline = None THEN None
                ELSE Some(DateTime_to_string(deadline[1]))
        item == [id |-> a.id, description |-> description, completed |-> FALSE,
                 deadline |-> time, sub_list |-> None]
    IN  [list |-> [list EXCEPT !.id_pool = a.pool, !.items = <<item>> \o @],
         item |-> item]

\* a push that leaves the pool as it was
push_item_keeps_pool(list, description, deadline) ==
    LET a == acquire_id(list.id_pool)
        time == IF deadline = None THEN None
                ELSE Some(DateTime_to_string(deadline[1]))
        item == [id |-> a.id, description |-> description, completed |-> FALSE,
                 deadline |-> time, sub_list |-> None]
    IN  [list |-> [list EXCEPT !.items = Append(@, item)], item |-> item]

\* lines 140-153 of add_item, on the list the item goes to
push_item(list, description, deadline) ==
    LET a == acquire_id(list.id_pool)
        time == IF deadline = None THEN None
                ELSE Some(DateTime_to_string(deadline[1]))
        item == [id |-> a.id, description |-> description, completed |-> FALSE,
                 deadline |-> time, sub_list |-> None]
    IN  [list |-> [list EXCEPT !.id_pool = a.pool, !.items = Append(@, item)],
         item |-> item]

add_item(self, description, deadline, parent_path) ==
    IF parent_path # None
    THEN LET parent == parse_path(self, parent_path[1])
         IN  IF ~parent.ok THEN Rejected(self, parent.err)
             ELSE LET list == get_or_insert(parent.item.sub_list, TodoList_new)
                      pushed == push_item(list, description, deadline)
                  IN  [ok |-> TRUE, err |-> NoErr,
                       list |-> ReplaceItemAt(self, parent.loc,
                                    [parent.item EXCEPT !.sub_list = Some(pushed.list)]),
                       item |-> pushed.item]
    ELSE LET pushed == push_item(self, description, deadline)
         IN  [ok |-> TRUE, err |-> NoErr, list |-> pushed.list, item |-> pushed.item]

edit_item(self, path, description, deadline) ==
    LET r == parse_path(self, path)
    IN  IF ~r.ok THEN Rejected(self, r.err)
        ELSE LET item == [r.item EXCEPT
                              !.description = description,
                              !.deadline = IF deadline = None THEN None
                                           ELSE Some(DateTime_to_string(deadline[1]))]
             IN  [ok |-> TRUE, err |-> NoErr,
                  list |-> ReplaceItemAt(self, r.loc, item), item |-> item]

\* a complete that flips the flag
complete_toggle(item) == [item EXCEPT !.completed = ~@]

\* TodoItem::complete
complete(item) == [item EXCEPT !.completed = TRUE]

complete_item(self, path) ==
    LET r == parse_path(self, path)
    IN  IF ~r.ok THEN Rejected(self, r.err)
        ELSE LET item == complete(r.item)
             IN  [ok |-> TRUE, err |-> NoErr,
                  list |-> ReplaceItemAt(self, r.loc, item), item |-> item]

split_path(path) ==
    LET cut == rsplit_once(path, ":")
    IN  IF cut # None
        THEN LET child == parse_usize(cut[1][2])
             IN  IF ~child.ok
                 THEN [ok |-> FALSE, err |-> Err("InvalidParseFormat"),
                       parent |-> None, child |-> 0]
                 ELSE [ok |-> TRUE, err |-> NoErr,
                       parent |-> Some(cut[1][1]), child |-> child.val]
        ELSE LET child == parse_usize(path)
             IN  IF ~child.ok
                 THEN [ok |-> FALSE, err |-> Err("InvalidParseFormat"),
                       parent |-> None, child |-> 0]
                 ELSE [ok |-> TRUE, err |-> NoErr, parent |-> None, child |-> child.val]

\* Iterator::position: the first index (from 0) of an item with this id
position(items, id) ==
    IF \E i \in 1..Len(items) : items[i].id = id
    THEN Some((CHOOSE i \in 1..Len(items) :
                   items[i].id = id /\ \A j \in 1..(i - 1) : items[j].id # id) - 1)
    ELSE None

\* Vec::remove
remove(items, index) ==
    SubSeq(items, 1, index) \o SubSeq(items, index + 2, Len(items))

\* a removal that never gives the identifier back to the pool
take_item_keeps_id(parent, id) ==
    LET index == position(parent.items, id)
    IN  IF index = None
        THEN [ok |-> FALSE, err |-> [kind |-> "ItemNotFound", index |-> id, depth |-> 0],
              list |-> parent, item |-> NoItem]
        ELSE [ok |-> TRUE, err |-> NoErr,
              list |-> [parent EXCEPT !.items = remove(@, index[1])],
              item |-> parent.items[index[1] + 1]]

\* a removal that reads the final segment as a position
take_item_by_index(parent, id) ==
    IF id >= Len(parent.items)
    THEN [ok |-> FALSE, err |-> [kind |-> "ItemNotFound", index |-> id, depth |-> 0],
          list |-> parent, item |-> NoItem]
    ELSE LET released == release_id(parent.id_pool, parent.items[id + 1].id)
         IN  [ok |-> TRUE, err |-> NoErr,
              list |-> [parent EXCEPT !.id_pool = released.pool,
                                      !.items = remove(@, id)],
              item |-> parent.items[id + 1]]

\* lines 213-220 of remove_item, on the list the item is taken from
take_item(parent, id) ==
    LET index == position(parent.items, id)
    IN  IF index = None
        THEN [ok |-> FALSE, err |-> [kind |-> "ItemNotFound", index |-> id, depth |-> 0],
              list |-> parent, item |-> NoItem]
        ELSE LET released == release_id(parent.id_pool, id)
             IN  IF ~released.ok
                 THEN [ok |-> FALSE, err |-> released.err, list |-> parent, item |-> NoItem]
                 ELSE [ok |-> TRUE, err |-> NoErr,
                       list |-> [parent EXCEPT !.id_pool = released.pool,
                                               !.items = remove(@, index[1])],
                       item |-> parent.items[index[1] + 1]]

\* get_or_insert on line 209 writes the empty sub-list into the parent item
\* before the item is looked up, so the write stays when the lookup fails
remove_item(self, path) ==
    LET sp == split_path(path)
    IN  IF ~sp.ok THEN Rejected(self, sp.err)
        ELSE IF sp.parent # None
        THEN LET r == parse_path(self, sp.parent[1])
             IN  IF ~r.ok THEN Rejected(self, r.err)
                 ELSE LET parent == get_or_insert(r.item.sub_list, TodoList_new)
                          taken == take_item(parent, sp.child)
                      IN  [ok |-> taken.ok, err |-> taken.err,
                           list |-> ReplaceItemAt(self, r.loc,
                                        [r.item EXCEPT !.sub_list = Some(taken.list)]),
                           item |-> taken.item]
        ELSE take_item(self, sp.child)

\* a listing that leaves the completed items out whatever the flag says
list_items_hides(self, show_complete) ==
    SelectSeq(self.items, LAMBDA item : ~item.completed)

\* list_items reads the static SHOW_COMPLETE: it is passed in
list_items(self, show_complete) ==
    IF show_complete THEN self.items
    ELSE SelectSeq(self.items, LAMBDA item : ~item.completed)

\* a count of all the items
todo_len_all(self) == Len(self.items)

todo_len(self) == Len(SelectSeq(self.items, LAMBDA item : ~item.completed))

RECURSIVE display(_, _, _)
\* TodoItem::display: the lines it prints, the item's own first and then
\* those of the listed items of its sub-list, one level deeper
display(self, depth, show_complete) ==
    LET line == [depth |-> depth, id |-> self.id, description |-> self.description,
                 count |-> IF self.sub_list = None THEN None
                           ELSE Some(todo_len(self.sub_list[1])),
                 deadline |-> self.deadline, completed |-> self.completed]
        items == IF self.sub_list = None THEN <<>>
                 ELSE list_items(self.sub_list[1], show_complete)
        below[n \in 0..Len(items)] ==
            IF n = 0 THEN <<>>
            ELSE below[n - 1] \o display(items[n], depth + 1, show_complete)
    IN  <<line>> \o below[Len(items)]

(***************************************************************************)
(* Deadlines (src/src/utils.rs).  A DateTime<Local> is the number of        *)
(* seconds since 1970-01-01 00:00:00; the local zone of the model is UTC.  *)
(***************************************************************************)
Upper == <<"A", "B", "C", "D", "E", "F", "G", "H", "I", "J", "K", "L", "M",
           "N", "O", "P", "Q", "R", "S", "T", "U", "V", "W", "X", "Y", "Z">>

Lower == <<"a", "b", "c", "d", "e", "f", "g", "h", "i", "j", "k", "l", "m",
           "n", "o", "p", "q", "r", "s", "t", "u", "v", "w", "x", "y", "z">>

\* str::to_lowercase
to_lowercase(s) ==
    [i \in 1..Len(s) |->
        IF \E k \in 1..Len(Upper) : Upper[k] = s[i]
        THEN Lower[CHOOSE k \in 1..Len(Upper) : Upper[k] = s[i]]
        ELSE s[i]]

ends_with(s, pat) ==
    Len(pat) <= Len(s) /\ SubSeq(s, Len(s) - Len(pat) + 1, Len(s)) = pat

RECURSIVE trim_end_matches(_, _)
\* str::trim_end_matches: the suffix is taken off as often as it is there
trim_end_matches(s, pat) ==
    IF ends_with(s, pat)
    THEN trim_end_matches(SubSeq(s, 1, Len(s) - Len(pat)), pat)
    ELSE s

RECURSIVE split_whitespace(_)
\* str::split_whitespace: the non-empty pieces between runs of spaces
split_whitespace(s) ==
    IF s = <<>> THEN <<>>
    ELSE IF s[1] = " " THEN split_whitespace(Tail(s))
    ELSE LET i == find(s, " ")
         IN  IF i = 0 THEN <<s>>
             ELSE <<SubSeq(s, 1, i - 1)>> \o split_whitespace(SubSeq(s, i + 1, Len(s)))

\* i64::from_str: an optional sign, then one or more decimal digits.  The
\* texts of the model are too short for a value to pass i64::MAX.
parse_i64(s) ==
    LET signed == s # <<>> /\ s[1] \in {"+", "-"}
        body == IF signed THEN Tail(s) ELSE s
    IN  IF body = <<>> \/ \E i \in 1..Len(body) : ~IsDigit(body[i])
        THEN [ok |-> FALSE, val |-> 0]
        ELSE [ok |-> TRUE,
              val |-> IF signed /\ s[1] = "-" THEN 0 - decimal(body) ELSE decimal(body)]

\* chrono::Duration::days, hours, minutes, in seconds
Duration_days(n) == n * 86400

Duration_hours(n) == n * 3600

Duration_minutes(n) == n * 60

RECURSIVE offset_of(_, _)
\* the loop of parse_duration_offset over the parts not yet read; None is the
\* early return of `.ok()?`
offset_of(parts, duration) ==
    IF parts = <<>> THEN Some(duration)
    ELSE LET part == Head(parts)
             d == <<"d">>
             h == <<"h">>
             m == <<"m">>
         IN  IF ends_with(part, d) \/ ends_with(part, <<"d", "a", "y", "s">>)
             THEN LET days == parse_i64(
                          trim_end_matches(
                              trim_end_matches(
                                  trim_end_matches(part, d),
                                  <<"d", "a", "y">>),
                              <<"d", "a", "y", "s">>))
                  IN  IF ~days.ok THEN None
                      ELSE offset_of(Tail(parts), duration + Duration_days(days.val))
             ELSE IF ends_with(part, h) \/ ends_with(part, <<"h", "o", "u", "r", "s">>)
             THEN LET hours == parse_i64(
                          trim_end_matches(
                              trim_end_matches(
                                  trim_end_matches(part, h),
                                  <<"h", "o", "u", "r">>),
                              <<"h", "o", "u", "r", "s">>))
                  IN  IF ~hours.ok THEN None
                      ELSE offset_of(Tail(parts), duration + Duration_hours(hours.val))
             ELSE IF ends_with(part, m) \/ ends_with(part, <<"m", "i", "n">>)
                        \/ ends_with(part, <<"m", "i", "n", "u", "t", "e", "s">>)
             THEN LET minutes == parse_i64(
                          trim_end_matches(
                              trim_end_matches(
                                  trim_end_matches(
                                      trim_end_matches(part, m),
                                      <<"m", "i", "n">>),
                                  <<"m", "i", "n", "u", "t", "e">>),
                              <<"m", "i", "n", "u", "t", "e", "s">>))
                  IN  IF ~minutes.ok THEN None
                      ELSE offset_of(Tail(parts), duration + Duration_minutes(minutes.val))
             ELSE offset_of(Tail(parts), duration)

parse_duration_offset(duration_str, base_time) ==
    LET duration == offset_of(split_whitespace(duration_str), 0)
    IN  IF duration = None THEN None ELSE Some(base_time + duration[1])

\* date_naive().and_hms_opt(23, 59, 59): the last second of the day of t
end_of_day(t) == (t \div 86400) * 86400 + 86399

parse_relative_time(time_str, now) ==
    LET lower == to_lowercase(time_str)
    IN  IF lower = <<"t", "o", "d", "a", "y">>
        THEN Some(end_of_day(now))
        ELSE IF lower = <<"t", "o", "m", "o", "r", "r", "o", "w">>
        THEN Some(end_of_day(now + Duration_days(1)))
        ELSE IF lower = <<"n", "e", "x", "t", "w", "e", "e", "k">>
        THEN Some(end_of_day(now + Duration_days(7)))
        ELSE IF time_str # <<>> /\ time_str[1] = "+"
        THEN parse_duration_offset(Tail(time_str), now)
        ELSE None

IsLeap(year) == year % 4 = 0 /\ (year % 100 # 0 \/ year % 400 = 0)

DaysInMonth(year, month) ==
    IF month = 2 THEN (IF IsLeap(year) THEN 29 ELSE 28)
    ELSE IF month \in {4, 6, 9, 11} THEN 30 ELSE 31

\* the days from 1970-01-01 to the given date of the proleptic Gregorian calendar
DaysFromCivil(year, month, day) ==
    LET y == IF month <= 2 THEN year - 1 ELSE year
        era == y \div 400
        yoe == y - era * 400
        doy == (153 * (IF month > 2 THEN month - 3 ELSE month + 9) + 2) \div 5 + day - 1
        doe == yoe * 365 + yoe \div 4 - yoe \div 100 + doy
    IN  era * 146097 + doe - 719468

\* NaiveDateTime::parse_from_str(s, "%Y-%m-%d %H:%M"), on texts written with
\* four, two, two, two and two digits
parse_from_str_date_time(s) ==
    IF ~(/\ Len(s) = 16
         /\ s[5] = "-" /\ s[8] = "-" /\ s[11] = " " /\ s[14] = ":"
         /\ \A i \in (1..16) \ {5, 8, 11, 14} : IsDigit(s[i]))
    THEN None
    ELSE LET year == decimal(SubSeq(s, 1, 4))
             month == decimal(SubSeq(s, 6, 7))
             day == decimal(SubSeq(s, 9, 10))
             hour == decimal(SubSeq(s, 12, 13))
             minute == decimal(SubSeq(s, 15, 16))
         IN  IF /\ month \in 1..12
                /\ day \in 1..DaysInMonth(year, month)
                /\ hour < 24 /\ minute < 60
             THEN Some(Duration_days(DaysFromCivil(year, month, day))
                         + Duration_hours(hour) + Duration_minutes(minute))
             ELSE None

\* NaiveDateTime::parse_from_str(s, "%Y-%m-%d"): the format names no hour and
\* no minute, and chrono does not make a NaiveDateTime without them
parse_from_str_date(s) == None

\* Local::now() is read inside: it is passed in
parse_deadline(deadline, now) ==
    IF deadline = None THEN [ok |-> FALSE, err |-> Err("InvalidDeadlineFormat"), at |-> 0]
    ELSE IF parse_from_str_date_time(deadline[1]) # None
    THEN [ok |-> TRUE, err |-> NoErr, at |-> parse_from_str_date_time(deadline[1])[1]]
    ELSE IF parse_from_str_date(deadline[1]) # None
    THEN [ok |-> TRUE, err |-> NoErr, at |-> parse_from_str_date(deadline[1])[1]]
    ELSE IF parse_relative_time(deadline[1], now) # None
    THEN [ok |-> TRUE, err |-> NoErr, at |-> parse_relative_time(deadline[1], now)[1]]
    ELSE [ok |-> FALSE, err |-> Err("InvalidDeadlineFormat"), at |-> 0]

(***************************************************************************)
(* PoolSpec: every sequence of acquire_id and release_id calls on one pool *)
(***************************************************************************)
Without(s, x) == SelectSeq(s, LAMBDA y : y # x)

PoolInit ==
    /\ pool = IdPool_new
    /\ pool_prev = IdPool_new
    /\ pool_log = <<>>
    /\ pool_last = [op |-> "new", id |-> 0, ok |-> TRUE, err |-> NoErr,
                    newest |-> None, again |-> FALSE]

PoolAcquire ==
    /\ pool.recycled_ids # <<>> \/ pool.next_id < MaxNextId
    /\ UNCHANGED <<engine_vars, deadline_vars, run_vars>>
    /\ LET r == acquire_id(pool)
       IN  /\ pool' = r.pool
           /\ pool_prev' = pool
           /\ pool_log' = Without(pool_log, r.id)
           /\ pool_last' = [op |-> "acquire", id |-> r.id, ok |-> TRUE, err |-> NoErr,
                            newest |-> IF pool_log = <<>> THEN None
                                       ELSE Some(pool_log[Len(pool_log)]),
                            again |-> FALSE]

PoolRelease ==
    \E id \in 0..MaxNextId :
        LET r == release_id(pool, id)
        IN  /\ UNCHANGED <<engine_vars, deadline_vars, run_vars>>
            /\ pool' = r.pool
            /\ pool_prev' = pool
            /\ pool_log' = IF r.ok THEN Append(pool_log, id) ELSE pool_log
            /\ pool_last' = [op |-> "release", id |-> id, ok |-> r.ok, err |-> r.err,
                             newest |-> None,
                             again |-> /\ pool_last.op = "release"
                                       /\ pool_last.ok
                                       /\ pool_last.id = id]

(***************************************************************************)
(* Spec: every sequence of calls on one TodoList, from TodoList::new()     *)
(***************************************************************************)
\* the paths of one segment, and of two segments joined by ":"
Paths == Segments \cup {first \o <<":">> \o seg : first \in FirstSegments, seg \in Segments}

Deadlines == {None} \cup {Some(t) : t \in Moments}

RECURSIVE Count(_)
\* the items of a list and of the lists below it
Count(list) ==
    IF list.items = <<>> THEN 0
    ELSE LET first == list.items[1]
         IN  1 + (IF first.sub_list = None THEN 0 ELSE Count(first.sub_list[1]))
               + Count([list EXCEPT !.items = Tail(@)])

IsPrefix(a, b) == Len(a) <= Len(b) /\ SubSeq(b, 1, Len(a)) = a

Pending(addr) == IF addr \in DOMAIN watch THEN watch[addr] ELSE <<>>

\* watch after the item at position k of the list at addr, with identifier id,
\* has been removed: the lists below that item are gone and the lists below
\* its later siblings are one position closer
WatchAfterRemove(addr, k, id) ==
    LET below(b) == IsPrefix(addr, b) /\ Len(b) > Len(addr)
        kept == {b \in DOMAIN watch : ~(below(b) /\ b[Len(addr) + 1] = k)}
        moved(b) == IF below(b) /\ b[Len(addr) + 1] > k
                    THEN [b EXCEPT ![Len(addr) + 1] = @ - 1] ELSE b
        from(c) == IF \E b \in kept : moved(b) = c
                   THEN watch[CHOOSE b \in kept : moved(b) = c] ELSE <<>>
    IN  [c \in {moved(b) : b \in kept} \cup {addr} |->
            IF c = addr THEN Append(from(c), id) ELSE from(c)]

WatchAfterAdd(addr) == [c \in DOMAIN watch \ {addr} |-> watch[c]]

RECURSIVE Descend(_, _)
\* the list reached from list through the sub-lists at these positions
Descend(list, positions) ==
    IF positions = <<>> THEN list
    ELSE Descend(list.items[positions[1] + 1].sub_list[1], Tail(positions))

\* what is on record for the list at addr: nothing yet for a list no item
\* was added to
Held(addr) == IF addr \in DOMAIN ledger THEN ledger[addr]
              ELSE [peak |-> 0, issued |-> {}]

\* ledger after the list at addr has grown to len items, the last with
\* identifier id
LedgerAfterAdd(addr, len, id) ==
    [c \in DOMAIN ledger \cup {addr} |->
        IF c = addr
        THEN [peak |-> IF len > Held(addr).peak THEN len ELSE Held(addr).peak,
              issued |-> Held(addr).issued \cup {id}]
        ELSE ledger[c]]

\* ledger after the item at position k of the list at addr has been removed:
\* the lists below that item are gone and the lists below its later siblings
\* are one position closer
LedgerAfterRemove(addr, k) ==
    LET below(b) == IsPrefix(addr, b) /\ Len(b) > Len(addr)
        kept == {b \in DOMAIN ledger : ~(below(b) /\ b[Len(addr) + 1] = k)}
        moved(b) == IF below(b) /\ b[Len(addr) + 1] > k
                    THEN [b EXCEPT ![Len(addr) + 1] = @ - 1] ELSE b
    IN  [c \in {moved(b) : b \in kept} |->
            ledger[CHOOSE b \in kept : moved(b) = c]]

\* no call is in progress: the caller has taken the result of the last one
Idle == [op |-> "none", path |-> None, description |-> "", deadline |-> None,
         ok |-> TRUE, err |-> NoErr, item |-> NoItem, pending |-> <<>>]

EngineInit ==
    /\ todo_list = TodoList_new
    /\ watch = <<>>
    /\ ledger = <<>>
    /\ SHOW_COMPLETE = FALSE
    /\ last = Idle

\* what last keeps of a call: the arguments the call read and what it returned
Call(op, path, description, deadline, r, pending) ==
    [op |-> op, path |-> path,
     description |-> IF r.ok THEN description ELSE "",
     deadline |-> IF r.ok THEN deadline ELSE None,
     ok |-> r.ok, err |-> r.err, item |-> r.item, pending |-> pending]

AddFrom(descriptions, deadlines, cap, tracked) ==
    /\ last = Idle
    /\ \E description \in descriptions, deadline \in deadlines,
          parent_path \in {None} \cup {Some(p) : p \in Paths} :
        LET r == add_item(todo_list, description, deadline, parent_path)
            addr == IF parent_path = None THEN <<>>
                    ELSE parse_path(todo_list, parent_path[1]).loc
        IN  /\ r.ok => Count(todo_list) < cap
            /\ todo_list' = r.list
            /\ watch' = IF r.ok /\ tracked THEN WatchAfterAdd(addr) ELSE watch
            /\ ledger' = IF r.ok /\ tracked
                         THEN LedgerAfterAdd(addr, Len(Descend(r.list, addr).items),
                                             r.item.id)
                         ELSE ledger
            /\ last' = Call("add", parent_path, description, deadline, r,
                            IF r.ok THEN Pending(addr) ELSE <<>>)
            /\ UNCHANGED <<SHOW_COMPLETE, pool_vars, deadline_vars, run_vars>>

Add == AddFrom(Descriptions, {None}, MaxEdited, FALSE)

AddDated == AddFrom(Descriptions, Deadlines, MaxEdited, FALSE)

AddPlain == AddFrom({"a"}, {None}, MaxItems, TRUE)

AddAlike == AddFrom({"a"}, {None}, MaxEdited, FALSE)

EditFrom(descriptions, deadlines) ==
    /\ last = Idle
    /\ \E path \in Paths, description \in descriptions, deadline \in deadlines :
        LET r == edit_item(todo_list, path, description, deadline)
        IN  /\ todo_list' = r.list
            /\ last' = Call("edit", Some(path), description, deadline, r, <<>>)
            /\ UNCHANGED <<watch, ledger, SHOW_COMPLETE, pool_vars, deadline_vars, run_vars>>

Edit == EditFrom(Descriptions, {None})

EditDated == EditFrom(Descriptions, Deadlines)

\* pending records whether the item was completed already before the call
Complete ==
    /\ last = Idle
    /\ \E path \in Paths :
        LET r == complete_item(todo_list, path)
        IN  /\ todo_list' = r.list
            /\ last' = Call("complete", Some(path), "", None, r,
                            IF r.ok /\ parse_path(todo_list, path).item.completed
                            THEN <<"completed">> ELSE <<>>)
            /\ UNCHANGED <<watch, ledger, SHOW_COMPLETE, pool_vars, deadline_vars, run_vars>>

RemoveWith(tracked) ==
    /\ last = Idle
    /\ \E path \in Paths :
        LET r == remove_item(todo_list, path)
            sp == split_path(path)
            addr == IF sp.parent = None THEN <<>>
                    ELSE parse_path(todo_list, sp.parent[1]).loc
            from == IF sp.parent = None THEN todo_list
                    ELSE parse_path(todo_list, sp.parent[1]).item.sub_list[1]
        IN  /\ todo_list' = r.list
            /\ watch' = IF r.ok /\ tracked
                        THEN WatchAfterRemove(addr, position(from.items, sp.child)[1],
                                              sp.child)
                        ELSE watch
            /\ ledger' = IF r.ok /\ tracked
                         THEN LedgerAfterRemove(addr, position(from.items, sp.child)[1])
                         ELSE ledger
            /\ last' = Call("remove", Some(path), "", None, r, <<>>)
            /\ UNCHANGED <<SHOW_COMPLETE, pool_vars, deadline_vars, run_vars>>

Remove == RemoveWith(FALSE)

RemoveTracked == RemoveWith(TRUE)

\* parse_path on its own: the list is only read
Resolve ==
    /\ last = Idle
    /\ \E path \in Paths :
        LET r == parse_path(todo_list, path)
        IN  /\ last' = Call("resolve", Some(path), "", None, r, <<>>)
            /\ UNCHANGED <<todo_list, watch, ledger, SHOW_COMPLETE, pool_vars, deadline_vars, run_vars>>

\* the List arm of main: the flag is stored, then the root list is listed and
\* every listed item is displayed
ListCommand ==
    /\ last = Idle
    /\ \E all \in BOOLEAN :
        LET items == list_items(todo_list, all)
            printed[n \in 0..Len(items)] ==
                IF n = 0 THEN <<>> ELSE printed[n - 1] \o display(items[n], 0, all)
        IN  /\ SHOW_COMPLETE' = all
            /\ last' = [Idle EXCEPT !.op = "list"]
                          @@ [shown |-> items,
                              count |-> IF items = <<>> THEN None
                                        ELSE Some(todo_len(todo_list)),
                              lines |-> printed[Len(items)]]
            /\ UNCHANGED <<todo_list, watch, ledger, pool_vars, deadline_vars, run_vars>>

\* the caller takes the result; the engine is ready for the next call
Return ==
    /\ last # Idle
    /\ last' = Idle
    /\ UNCHANGED <<todo_list, watch, ledger, SHOW_COMPLETE, pool_vars, deadline_vars, run_vars>>

\* the magnitudes and the unit suffixes of the tokens of an offset; the
\* last two suffixes are no units
Magnitudes == {<<"1">>, <<"2">>}

Suffixes == {<<"d">>, <<"d", "a", "y">>, <<"d", "a", "y", "s">>,
             <<"h">>, <<"h", "o", "u", "r">>, <<"h", "o", "u", "r", "s">>,
             <<"m">>, <<"m", "i", "n">>, <<"m", "i", "n", "u", "t", "e">>,
             <<"m", "i", "n", "u", "t", "e", "s">>,
             <<"w">>, <<>>}

Tokens == [magnitude : Magnitudes, suffix : Suffixes]

\* the offsets of one token and of two
TokenLists == {<<t>> : t \in Tokens} \cup (Tokens \X Tokens)

TextOf(tokens) ==
    IF Len(tokens) = 1 THEN <<"+">> \o tokens[1].magnitude \o tokens[1].suffix
    ELSE <<"+">> \o tokens[1].magnitude \o tokens[1].suffix \o <<" ">>
                \o tokens[2].magnitude \o tokens[2].suffix

\* the other deadline texts: the keywords, absolute dates, texts of no format
OtherTexts ==
    {<<"t", "o", "d", "a", "y">>,
     <<"T", "o", "m", "o", "r", "r", "o", "w">>,
     <<"n", "e", "x", "t", "w", "e", "e", "k">>,
     <<"1", "9", "7", "0", "-", "0", "1", "-", "0", "2", " ", "1", "0", ":", "3", "0">>,
     <<"1", "9", "7", "0", "-", "1", "3", "-", "0", "2", " ", "1", "0", ":", "3", "0">>,
     <<"1", "9", "7", "0", "-", "0", "1", "-", "0", "2">>,
     <<"s", "o", "o", "n">>,
     <<"+", "x", "d">>,
     <<"+", "1", "d", " ", " ", "2", "h">>,
     <<"+">>,
     <<>>}

DeadlineTexts == {TextOf(tokens) : tokens \in TokenLists} \cup OtherTexts

\* what Local::now() can return: 01:00:00 on the second day, the last second
\* of the third
Nows == {90000, 259199}

NoDeadlineCall == [text |-> None, now |-> 0, ok |-> TRUE, at |-> 0]

\* parse_deadline is called with some text at some time
ParseDeadline ==
    /\ deadline_call = NoDeadlineCall
    /\ \E text \in DeadlineTexts, now \in Nows :
        LET r == parse_deadline(Some(text), now)
        IN  /\ deadline_call' = [text |-> Some(text), now |-> now, ok |-> r.ok, at |-> r.at]
            /\ UNCHANGED <<pool_vars, engine_vars, run_vars>>

\* the caller takes the result
DeadlineReturn ==
    /\ deadline_call # NoDeadlineCall
    /\ deadline_call' = NoDeadlineCall
    /\ UNCHANGED <<pool_vars, engine_vars, run_vars>>

DeadlineInit == deadline_call = NoDeadlineCall

(***************************************************************************)
(* RunSpec: two invocations of the program on one file (src/src/main.rs,   *)
(* load_todo_list and save_todo_list of src/src/utils.rs).  The file is a  *)
(* document and its length in bytes; json is None when the bytes are not   *)
(* one JSON document (an empty file, or the start of one document followed *)
(* by the end of a longer one).                                            *)
(***************************************************************************)
RECURSIVE Sum(_)
Sum(lens) == IF lens = <<>> THEN 0 ELSE Head(lens) + Sum(Tail(lens))

RECURSIVE digits(_)
\* the length of a number as serde_json writes it
digits(n) == IF n < 10 THEN 1 ELSE 1 + digits(n \div 10)

\* the length of DateTime<Local>::to_string() for a whole second of a year of
\* four digits: "1970-01-02 01:00:00 +00:00"
DateTime_len == 26

\* serde_json's PrettyFormatter: the length of an array whose "[" is on a line
\* indented by depth levels of two spaces, given the lengths of its elements
array_len(depth, lens) ==
    IF lens = <<>> THEN 2
    ELSE 1 + Len(lens) * (1 + 2 * (depth + 1)) + Sum(lens) + (Len(lens) - 1)
           + 1 + 2 * depth + 1

\* the length of an object, given the lengths of its keys and values
object_len(depth, keys, lens) ==
    1 + Len(lens) * (1 + 2 * (depth + 1) + 2 + 2) + Sum(keys) + Sum(lens)
      + (Len(lens) - 1) + 1 + 2 * depth + 1

SetToSeq(set) ==
    CHOOSE seq \in [1..Cardinality(set) -> set] :
        /\ Range(seq) = set
        /\ \A i, j \in 1..Cardinality(set) : i < j => seq[i] < seq[j]

RECURSIVE pretty_len(_, _)
\* the length of the document to_writer_pretty writes for a TodoList
pretty_len(list, depth) ==
    LET item_len(item) ==
            object_len(depth + 2,
                <<Len("id"), Len("description"), Len("completed"), Len("deadline"),
                  Len("sub_list")>>,
                <<digits(item.id),
                  Len(item.description) + 2,
                  IF item.completed THEN Len("true") ELSE Len("false"),
                  IF item.deadline = None THEN Len("null") ELSE DateTime_len + 2,
                  IF item.sub_list = None THEN Len("null")
                  ELSE pretty_len(item.sub_list[1], depth + 2 + 1)>>)
        id_pool == list.id_pool
        used == SetToSeq(id_pool.used_ids)
        pool_len ==
            object_len(depth + 1,
                <<Len("next_id"), Len("recycled_ids"), Len("used_ids")>>,
                <<digits(id_pool.next_id),
                  array_len(depth + 2, [i \in 1..Len(id_pool.recycled_ids) |->
                                           digits(id_pool.recycled_ids[i])]),
                  array_len(depth + 2, [i \in 1..Len(used) |-> digits(used[i])])>>)
    IN  object_len(depth,
            <<Len("items"), Len("id_pool")>>,
            <<array_len(depth + 1, [i \in 1..Len(list.items) |->
                                       item_len(list.items[i])]),
              pool_len>>)

RECURSIVE to_json(_)
\* Serialize: a HashSet is written as an array
to_json(list) ==
    [items |-> [i \in 1..Len(list.items) |->
                   [list.items[i] EXCEPT
                        !.sub_list = IF @ = None THEN None ELSE Some(to_json(@[1]))]],
     id_pool |-> [list.id_pool EXCEPT !.used_ids = SetToSeq(@)]]

RECURSIVE from_json(_)
\* Deserialize: the array is read back into a HashSet
from_json(doc) ==
    [items |-> [i \in 1..Len(doc.items) |->
                   [doc.items[i] EXCEPT
                        !.sub_list = IF @ = None THEN None ELSE Some(from_json(@[1]))]],
     id_pool |-> [doc.id_pool EXCEPT !.used_ids = Range(@)]]

to_writer_pretty(self) ==
    [len |-> pretty_len(self, 0), json |-> Some(to_json(self))]

load_todo_list(f) ==
    IF f = None THEN [ok |-> TRUE, err |-> NoErr, list |-> TodoList_new]
    ELSE IF f[1].json = None
    THEN [ok |-> FALSE, err |-> Err("Json"), list |-> TodoList_new]
    ELSE [ok |-> TRUE, err |-> NoErr, list |-> from_json(f[1].json[1])]

\* OpenOptions::new().write(true).create(true).truncate(true).open(..)
open_truncate(f) == Some([len |-> 0, json |-> None])

\* the BufWriter writes the document from the start of the file it opened:
\* what was written behind the document's end by another writer stays
write_from_start(f, doc) ==
    IF doc.len >= f[1].len THEN Some(doc)
    ELSE Some([len |-> f[1].len, json |-> None])

\* Result::ok on what parse_deadline returned
ok(r) == IF r.ok THEN Some(r.at) ELSE None

\* the Add arm of main
add_arm(self, command, now) ==
    LET deadline == ok(parse_deadline(command.deadline, now))
    IN  add_item(self, command.description, deadline, command.parent_path)

\* an Edit arm that writes the deadline whether or not there is a new one
edit_arm_clears(self, command, now) ==
    LET deadline == ok(parse_deadline(command.deadline, now))
        parent == IF command.parent_path = None THEN Failed(NoErr)
                  ELSE parse_path(self, command.parent_path[1])
        items == IF command.parent_path = None THEN self.items
                 ELSE IF parent.ok /\ parent.item.sub_list # None
                 THEN parent.item.sub_list[1].items
                 ELSE <<>>
    IN  IF command.parent_path # None /\ ~parent.ok
        THEN Rejected(self, parent.err)
        ELSE IF command.parent_path # None /\ parent.item.sub_list = None
        THEN Rejected(self, Err("ParentNotFound"))
        ELSE IF command.id >= Len(items)
        THEN Rejected(self, Err("CannotGetEditItem"))
        ELSE LET item == [items[command.id + 1] EXCEPT
                              !.description = command.description,
                              !.deadline = IF deadline = None THEN None
                                           ELSE Some(DateTime_to_string(deadline[1]))]
             IN  [ok |-> TRUE, err |-> NoErr,
                  list |-> IF command.parent_path = None
                           THEN [self EXCEPT !.items[command.id + 1] = item]
                           ELSE ReplaceItemAt(self, parent.loc \o <<command.id>>,
                                              item),
                  item |-> item]

\* the Edit arm of main: the item is found by its position in the root list
\* or in the sub-list of the parent, not through edit_item
edit_arm(self, command, now) ==
    LET deadline == ok(parse_deadline(command.deadline, now))
        parent == IF command.parent_path = None THEN Failed(NoErr)
                  ELSE parse_path(self, command.parent_path[1])
        items == IF command.parent_path = None THEN self.items
                 ELSE IF parent.ok /\ parent.item.sub_list # None
                 THEN parent.item.sub_list[1].items
                 ELSE <<>>
    IN  IF command.parent_path # None /\ ~parent.ok
        THEN Rejected(self, parent.err)
        ELSE IF command.parent_path # None /\ parent.item.sub_list = None
        THEN Rejected(self, Err("ParentNotFound"))
        ELSE IF command.id >= Len(items)
        THEN Rejected(self, Err("CannotGetEditItem"))
        ELSE LET item == [items[command.id + 1] EXCEPT
                              !.description = command.description,
                              !.deadline = IF deadline = None THEN @
                                           ELSE Some(DateTime_to_string(deadline[1]))]
             IN  [ok |-> TRUE, err |-> NoErr,
                  list |-> IF command.parent_path = None
                           THEN [self EXCEPT !.items[command.id + 1] = item]
                           ELSE ReplaceItemAt(self, parent.loc \o <<command.id>>,
                                              item),
                  item |-> item]

\* the number of the Complete and Remove arms where the engine takes a path:
\* the path of one segment that reads as that number
RECURSIVE id_path(_)
id_path(id) ==
    IF id < 10 THEN <<Digits[id + 1]>>
    ELSE id_path(id \div 10) \o <<Digits[(id % 10) + 1]>>

\* the Complete arm of main: with a parent the item is completed in the
\* sub-list of the parent, else in the root list
complete_arm(self, command) ==
    IF command.parent_path = None
    THEN complete_item(self, id_path(command.id))
    ELSE LET parent == parse_path(self, command.parent_path[1])
         IN  IF ~parent.ok THEN Rejected(self, parent.err)
             ELSE IF parent.item.sub_list = None
             THEN Rejected(self, Err("ParentOrSublistNotFound"))
             ELSE LET r == complete_item(parent.item.sub_list[1],
                                         id_path(command.id))
                  IN  [ok |-> r.ok, err |-> r.err,
                       list |-> ReplaceItemAt(self, parent.loc,
                                    [parent.item EXCEPT
                                         !.sub_list = Some(r.list)]),
                       item |-> r.item]

\* the Remove arm of main, of the same shape
remove_arm(self, command) ==
    IF command.parent_path = None
    THEN remove_item(self, id_path(command.id))
    ELSE LET parent == parse_path(self, command.parent_path[1])
         IN  IF ~parent.ok THEN Rejected(self, parent.err)
             ELSE IF parent.item.sub_list = None
             THEN Rejected(self, Err("ParentOrSublistNotFound"))
             ELSE LET r == remove_item(parent.item.sub_list[1],
                                       id_path(command.id))
                  IN  [ok |-> r.ok, err |-> r.err,
                       list |-> ReplaceItemAt(self, parent.loc,
                                    [parent.item EXCEPT
                                         !.sub_list = Some(r.list)]),
                       item |-> r.item]

\* the List arm and the Completion arm of main print and change nothing
list_arm(self, command) ==
    [ok |-> TRUE, err |-> NoErr, list |-> self, item |-> NoItem]

completion_arm(self, command) ==
    [ok |-> TRUE, err |-> NoErr, list |-> self, item |-> NoItem]

\* the methods of the list that the arm of the command calls, in order
arm_calls(self, command) ==
    LET parent == IF command.parent_path = None THEN Failed(NoErr)
                  ELSE parse_path(self, command.parent_path[1])
        resolve == IF command.parent_path = None THEN <<>>
                   ELSE <<"parse_path">>
        reached == \/ command.parent_path = None
                   \/ parent.ok /\ parent.item.sub_list # None
        items == list_items(self, command.all)
    IN  CASE command.kind = "add" -> <<"add_item">>
          [] command.kind = "edit" -> resolve
          [] command.kind = "complete" ->
                resolve \o IF reached THEN <<"complete_item">> ELSE <<>>
          [] command.kind = "remove" ->
                resolve \o IF reached THEN <<"remove_item">> ELSE <<>>
          [] command.kind = "list" ->
                <<"list_items">>
                \o IF items = <<>> THEN <<>>
                   ELSE <<"todo_len">> \o [i \in 1..Len(items) |-> "display"]
          [] OTHER -> <<>>

\* the arm that main matches for the command
arm(self, command, now) ==
    CASE command.kind = "add" -> add_arm(self, command, now)
      [] command.kind = "edit" -> edit_arm(self, command, now)
      [] command.kind = "complete" -> complete_arm(self, command)
      [] command.kind = "remove" -> remove_arm(self, command)
      [] command.kind = "list" -> list_arm(self, command)
      [] OTHER -> completion_arm(self, command)

\* the invocations
Procs == {"p", "q"}

\* the descriptions on the command line, of one character and of two
RunDescriptions == {<<"a">>, <<"b", "b">>}

\* the deadline on the command line: none, one that parses, one that does not
RunDeadlines == {None, Some(<<"+", "1", "d">>), Some(<<"s", "o", "o", "n">>)}

RunParents == {None, Some(<<"0">>)}

Commands ==
    [kind : {"add"}, id : {0}, description : RunDescriptions,
     deadline : RunDeadlines, parent_path : RunParents, all : {FALSE}]
    \cup [kind : {"edit"}, id : {0, 1}, description : RunDescriptions,
          deadline : RunDeadlines, parent_path : RunParents, all : {FALSE}]
    \cup [kind : {"complete", "remove"}, id : {0, 1}, description : {<<>>},
          deadline : {None}, parent_path : RunParents, all : {FALSE}]
    \cup [kind : {"list"}, id : {0}, description : {<<>>},
          deadline : {None}, parent_path : {None}, all : BOOLEAN]
    \cup [kind : {"completion"}, id : {0}, description : {<<>>},
          deadline : {None}, parent_path : {None}, all : {FALSE}]

NoCommand == [kind |-> "none", id |-> 0, description |-> <<>>,
              deadline |-> None, parent_path |-> None, all |-> FALSE]

Started == [pc |-> "start", command |-> NoCommand, loaded |-> TodoList_new,
            todo_list |-> TodoList_new, now |-> 0, err |-> NoErr,
            calls |-> <<>>]

RunInit ==
    /\ file = None
    /\ procs = [p \in Procs |-> Started]
    /\ events = <<>>

\* main up to the match: the command line is parsed and the file is loaded
Load(p) ==
    /\ procs[p].pc = "start"
    /\ \E command \in Commands :
        LET r == load_todo_list(file)
        IN  procs' = [procs EXCEPT ![p] =
                         [@ EXCEPT !.pc = IF r.ok THEN "loaded" ELSE "failed",
                                   !.command = command,
                                   !.loaded = r.list,
                                   !.todo_list = r.list,
                                   !.err = r.err]]
    /\ events' = Append(events, <<p, "load">>)
    /\ UNCHANGED <<file, pool_vars, engine_vars, deadline_vars>>

\* the arm of the command; on an error main returns and nothing is saved
Run(p) ==
    /\ procs[p].pc = "loaded"
    /\ \E now \in Nows :
        LET r == arm(procs[p].todo_list, procs[p].command, now)
        IN  procs' = [procs EXCEPT ![p] =
                         [@ EXCEPT !.pc = IF r.ok THEN "ran" ELSE "failed",
                                   !.todo_list = r.list,
                                   !.now = now,
                                   !.err = r.err,
                                   !.calls = arm_calls(procs[p].todo_list,
                                                       procs[p].command)]]
    /\ UNCHANGED <<file, events, pool_vars, engine_vars, deadline_vars>>

\* save_todo_list, lines 25-29: the file is created or emptied
OpenFile(p) ==
    /\ procs[p].pc = "ran"
    /\ file' = open_truncate(file)
    /\ procs' = [procs EXCEPT ![p].pc = "opened"]
    /\ events' = Append(events, <<p, "open">>)
    /\ UNCHANGED <<pool_vars, engine_vars, deadline_vars>>

\* save_todo_list, lines 31-33: the document is written
WriteFile(p) ==
    /\ procs[p].pc = "opened"
    /\ file' = write_from_start(file, to_writer_pretty(procs[p].todo_list))
    /\ procs' = [procs EXCEPT ![p].pc = "done"]
    /\ events' = Append(events, <<p, "write">>)
    /\ UNCHANGED <<pool_vars, engine_vars, deadline_vars>>

RunNext == \E p \in Procs : Load(p) \/ Run(p) \/ OpenFile(p) \/ WriteFile(p)

Init == PoolInit /\ EngineInit /\ DeadlineInit /\ RunInit

\* two invocations, each with any command, their steps in any order
RunSpec == Init /\ [][RunNext]_vars

PoolNext == PoolAcquire \/ PoolRelease

Next == Add \/ Edit \/ Complete \/ Remove \/ Resolve \/ Return

DatedNext == AddDated \/ EditDated \/ Complete \/ Remove \/ Resolve \/ Return

IdNext == AddPlain \/ RemoveTracked \/ Resolve \/ Return

DeadlineNext == ParseDeadline \/ DeadlineReturn

ListNext == AddAlike \/ Complete \/ Remove \/ ListCommand \/ Return

PoolSpec == Init /\ [][PoolNext]_vars

\* every sequence of calls, with every description and no deadlines
Spec == Init /\ [][Next]_vars

\* every sequence of calls, with every description and deadline
DatedSpec == Init /\ [][DatedNext]_vars

\* every sequence of add_item and remove_item calls: the identifiers of a
\* larger tree, all descriptions alike and no deadlines
IdSpec == Init /\ [][IdNext]_vars

\* every call of parse_deadline
DeadlineSpec == Init /\ [][DeadlineNext]_vars

\* every sequence of add_item, complete_item and remove_item calls and of
\* List commands, with either value of the flag; all descriptions alike
ListSpec == Init /\ [][ListNext]_vars

(***************************************************************************)
(* Claims about IdPool, checked under PoolSpec                             *)
(***************************************************************************)
NoDuplicates(s) == Cardinality(Range(s)) = Len(s)

\* C1: after any sequence of acquire_id and release_id calls, every identifier
\* is in exactly one class: never issued (>= next_id), in used_ids, or in
\* recycled_ids; the classes are pairwise disjoint, they cover the naturals,
\* and recycled_ids holds no identifier twice.
C1_PoolPartition ==
    /\ pool.next_id \in Nat
    /\ pool.used_ids \cap Range(pool.recycled_ids) = {}
    /\ pool.used_ids \cup Range(pool.recycled_ids) = 0..(pool.next_id - 1)
    /\ NoDuplicates(pool.recycled_ids)

\* the three classes are inhabited, right after a release that failed
C1_Witness ==
    /\ pool_last.op = "release" /\ ~pool_last.ok
    /\ pool.used_ids # {}
    /\ Len(pool.recycled_ids) >= 2
    /\ pool.next_id < MaxNextId

\* C2: acquire_id never fails; with a non-empty recycle stack it returns the
\* most recently released identifier still on the stack and leaves next_id
\* alone, otherwise it returns next_id and increments it; the identifier was
\* not in used_ids before the call and is in used_ids after it.
C2_AcquireLifo ==
    pool_last.op = "acquire" =>
        /\ pool_last.ok
        /\ pool_last.id \notin pool_prev.used_ids
        /\ pool_last.id \in pool.used_ids
        /\ IF pool_prev.recycled_ids # <<>>
           THEN /\ pool_last.newest = Some(pool_last.id)
                /\ pool.next_id = pool_prev.next_id
           ELSE /\ pool_last.newest = None
                /\ pool_last.id = pool_prev.next_id
                /\ pool.next_id = pool_prev.next_id + 1

\* an acquire that had two recycled identifiers to choose from
C2_Witness ==
    /\ pool_last.op = "acquire"
    /\ Len(pool_prev.recycled_ids) >= 2
    /\ pool_last.id # pool_prev.recycled_ids[1]

\* C3: release_id(id) with id not in used_ids fails with the not-in-use error
\* and changes nothing (so the second of two releases of one id fails);
\* with id in used_ids it removes id from used_ids and pushes it on top of
\* recycled_ids.
C3_Release ==
    pool_last.op = "release" =>
        /\ pool_last.again => ~pool_last.ok
        /\ IF pool_last.id \notin pool_prev.used_ids
           THEN /\ ~pool_last.ok
                /\ pool_last.err.kind = "IdNotInUse"
                /\ pool = pool_prev
           ELSE /\ pool_last.ok
                /\ pool.used_ids = pool_prev.used_ids \ {pool_last.id}
                /\ pool.recycled_ids = Append(pool_prev.recycled_ids, pool_last.id)
                /\ pool.next_id = pool_prev.next_id

\* the second release of the identifier just released
C3_Witness ==
    /\ pool_last.op = "release"
    /\ pool_last.again
    /\ ~pool_last.ok
    /\ pool = pool_prev

(***************************************************************************)
(* Claims about the engine                                                 *)
(***************************************************************************)
RECURSIVE AllLists(_)
\* a list and every list below it
AllLists(list) ==
    {list} \cup UNION {AllLists(list.items[i].sub_list[1]) :
                          i \in {j \in 1..Len(list.items) : list.items[j].sub_list # None}}

Ids(items) == [i \in 1..Len(items) |-> items[i].id]

IsNumber(seg) == seg # <<>> /\ \A i \in 1..Len(seg) : IsDigit(seg[i])

EngineOps == {"add", "edit", "complete", "remove"}

\* C4 as amended: when add_item on a list follows removals from that list
\* with no add_item on it in between, it returns the identifier of the item
\* removed last; after a single removal that is the removed item's identifier.
C4_AddReusesLastRemoved ==
    (last.op = "add" /\ last.ok /\ last.pending # <<>>) =>
        last.item.id = last.pending[Len(last.pending)]

\* add -> 0, add -> 1, remove 0, add -> 0 on the root list
C4_Witness ==
    /\ last.op = "add" /\ last.ok /\ last.path = None
    /\ last.pending = <<0>>
    /\ last.item.id = 0
    /\ Ids(todo_list.items) = <<1, 0>>

\* C4 as claimed: the add_item that follows on a list returns the identifier
\* of every item removed from that list since its previous add_item.
C4_AddReusesEveryRemoved ==
    (last.op = "add" /\ last.ok) =>
        \A i \in 1..Len(last.pending) : last.item.id = last.pending[i]

\* C5: no two items of one list, root or nested, have the same identifier.
C5_UniqueIds ==
    \A list \in AllLists(todo_list) : NoDuplicates(Ids(list.items))

\* two items of the root list after an identifier was reused, one completed
\* and one edited
C5_Witness ==
    /\ Len(todo_list.items) = 2
    /\ Ids(todo_list.items) = <<1, 0>>
    /\ todo_list.items[1].completed
    /\ todo_list.items[2].description = "b"

\* C6: an engine operation that returns an error leaves the whole tree as it
\* was before the call.
C6_ErrorLeavesTreeUnchanged ==
    [][(last'.op \in EngineOps /\ ~last'.ok) => todo_list' = todo_list]_vars

\* C7: edit on a resolvable path overwrites the description, and overwrites
\* the deadline only when a new one is supplied.
C7_EditKeepsDeadline ==
    [][(last'.op = "edit" /\ last'.ok) =>
          LET before == parse_path(todo_list, last'.path[1]).item
              after == parse_path(todo_list', last'.path[1]).item
          IN  /\ after.description = last'.description
              /\ after.deadline =
                     IF last'.deadline = None THEN before.deadline
                     ELSE Some(DateTime_to_string(last'.deadline[1]))]_vars

RECURSIVE CanDescend(_, _)
CanDescend(list, positions) ==
    \/ positions = <<>>
    \/ /\ positions[1] < Len(list.items)
       /\ list.items[positions[1] + 1].sub_list # None
       /\ CanDescend(list.items[positions[1] + 1].sub_list[1], Tail(positions))

\* what resolving the positions on list has to return
ResolvesAs(list, positions, r) ==
    LET n == Len(positions)
    IN  /\ \A d \in 0..(n - 1) :
             CanDescend(list, SubSeq(positions, 1, d)) =>
                 LET here == Descend(list, SubSeq(positions, 1, d))
                     index == positions[d + 1]
                 IN  /\ index >= Len(here.items) =>
                            ~r.ok /\ r.err = OutOfBounds(index, d)
                     /\ (index < Len(here.items) /\ d < n - 1
                           /\ here.items[index + 1].sub_list = None) =>
                            ~r.ok /\ r.err = NoSublist(index)
                     /\ (index < Len(here.items) /\ d = n - 1) =>
                            r.ok /\ r.item = here.items[index + 1]

PathOf(segments) ==
    IF Len(segments) = 1 THEN segments[1]
    ELSE segments[1] \o <<":">> \o segments[2]

SegmentLists == {<<seg>> : seg \in Segments} \cup (FirstSegments \X Segments)

\* C8: a path of numbers is walked as zero-based positions: the item at the
\* end is returned (sub-list or not), the first position past the end of its
\* list is reported with its depth, and an inner position without a sub-list
\* is reported as such.
C8_ResolveWalksPositions ==
    \A segments \in SegmentLists :
        (/\ last.op = "resolve"
         /\ last.path = Some(PathOf(segments))
         /\ \A i \in 1..Len(segments) : IsNumber(segments[i])) =>
            ResolvesAs(todo_list, [i \in 1..Len(segments) |-> decimal(segments[i])], last)

\* "0:1" on a sub-list of one item: index 1 is out of bounds at depth 1
C8_Witness ==
    /\ last.op = "resolve"
    /\ last.path = Some(<<"0", ":", "1">>)
    /\ Len(todo_list.items) >= 1
    /\ todo_list.items[1].sub_list # None
    /\ Len(todo_list.items[1].sub_list[1].items) = 1
    /\ ~last.ok
    /\ last.err = OutOfBounds(1, 1)

\* C9: resolving the empty path fails with PathNotFound.
C9_EmptyPathNotFound ==
    (last.op = "resolve" /\ last.path = Some(<<>>)) =>
        ~last.ok /\ last.err.kind = "PathNotFound"

\* the list a parent path addresses: the root, or the sub-list of the item
\* the path resolves to (empty when that item has none)
Addressed(list, parent) ==
    IF Len(parent) = 0 THEN list
    ELSE get_or_insert(parse_path(list, parent[1]).item.sub_list, TodoList_new)

\* C10: remove_item reads the final segment as an identifier: it removes the
\* one item of the addressed list with that identifier and returns it, moves
\* the identifier from used_ids to the top of recycled_ids, and keeps the
\* other items in order; with no such item it fails with item-not-found.
C10_RemoveByIdentifier ==
    [][\A segments \in SegmentLists :
          LET parent == SubSeq(segments, 1, Len(segments) - 1)
              final == segments[Len(segments)]
          IN  (/\ last'.op = "remove"
               /\ last'.path = Some(PathOf(segments))
               /\ IsNumber(final)
               /\ Len(parent) = 1 => parse_path(todo_list, parent[1]).ok) =>
                  LET id == decimal(final)
                      from == Addressed(todo_list, parent)
                      to == Addressed(todo_list', parent)
                      held == {k \in 1..Len(from.items) : from.items[k].id = id}
                  IN  IF held = {}
                      THEN ~last'.ok /\ last'.err.kind = "ItemNotFound"
                      ELSE /\ last'.ok
                           /\ last'.item \in {from.items[k] : k \in held}
                           /\ Len(to.items) = Len(from.items) - 1
                           /\ to.items = SelectSeq(from.items, LAMBDA item : item.id # id)
                           /\ to.id_pool.used_ids = from.id_pool.used_ids \ {id}
                           /\ to.id_pool.recycled_ids = Append(from.id_pool.recycled_ids, id)
                           /\ to.id_pool.next_id = from.id_pool.next_id]_vars

\* the item with identifier 1 was removed from position 0 of <<1, 2, 0>>
C10_Witness ==
    /\ last.op = "remove" /\ last.ok
    /\ last.path = Some(<<"1">>)
    /\ last.item.id = 1
    /\ Ids(todo_list.items) = <<2, 0>>
    /\ todo_list.id_pool.recycled_ids = <<1>>

(***************************************************************************)
(* Frame conditions of add_item and complete_item, checked under Spec      *)
(***************************************************************************)
RECURSIVE Blank(_, _)
\* the tree with the item at these positions taken out of the comparison
Blank(list, positions) ==
    [list EXCEPT !.items[positions[1] + 1] =
        IF Len(positions) = 1 THEN NoItem
        ELSE [@ EXCEPT !.sub_list = Some(Blank(@[1], Tail(positions)))]]

ItemAt(list, positions) ==
    Descend(list, SubSeq(positions, 1, Len(positions) - 1)).items[
        positions[Len(positions)] + 1]

\* C11: add_item fails only when the parent path does not resolve.  When it
\* succeeds the target is the root list (no parent path) or the sub-list of
\* the resolved parent (an empty list with a fresh pool when the parent had
\* none); the target gains one last item, not completed, without a sub-list,
\* whose identifier comes from the target's own pool; no other item and no
\* other list's pool changes.
C11_AddAppendsToTarget ==
    [][last'.op = "add" =>
          IF last'.path # None /\ ~parse_path(todo_list, last'.path[1]).ok
          THEN ~last'.ok
          ELSE LET from == Addressed(todo_list, last'.path)
                   to == Addressed(todo_list', last'.path)
                   item == last'.item
               IN  /\ last'.ok
                   /\ to.items = Append(from.items, item)
                   /\ item.description = last'.description
                   /\ ~item.completed
                   /\ item.sub_list = None
                   /\ item.id \notin from.id_pool.used_ids
                   /\ to.id_pool.used_ids = from.id_pool.used_ids \cup {item.id}
                   /\ IF from.id_pool.recycled_ids = <<>>
                      THEN /\ item.id = from.id_pool.next_id
                           /\ to.id_pool.next_id = from.id_pool.next_id + 1
                           /\ to.id_pool.recycled_ids = <<>>
                      ELSE /\ to.id_pool.recycled_ids \o <<item.id>>
                                  = from.id_pool.recycled_ids
                           /\ to.id_pool.next_id = from.id_pool.next_id
                   /\ IF last'.path = None
                      THEN todo_list' = to
                      ELSE LET loc == parse_path(todo_list, last'.path[1]).loc
                           IN  /\ Blank(todo_list', loc) = Blank(todo_list, loc)
                               /\ ItemAt(todo_list', loc)
                                      = [ItemAt(todo_list, loc) EXCEPT
                                             !.sub_list = Some(to)]]_vars

\* the first item added under the root item at position 0: its sub-list is
\* made for it, and the identifier 0 comes from the new list's own pool
C11_Witness ==
    /\ last.op = "add" /\ last.ok /\ last.path = Some(<<"0">>)
    /\ last.item.id = 0
    /\ todo_list.id_pool.next_id = 1
    /\ todo_list.items[1].sub_list
           = Some([items |-> <<last.item>>,
                   id_pool |-> [next_id |-> 1, recycled_ids |-> <<>>, used_ids |-> {0}]])

\* C12: complete_item on a resolvable path sets completed on the addressed
\* item and changes nothing else: the item's other fields, its siblings, the
\* other lists and every pool stay as they were; on an item that is already
\* completed it changes nothing at all.
C12_CompleteSetsFlagOnly ==
    [][(last'.op = "complete" /\ parse_path(todo_list, last'.path[1]).ok) =>
          LET loc == parse_path(todo_list, last'.path[1]).loc
              before == ItemAt(todo_list, loc)
              after == ItemAt(todo_list', loc)
          IN  /\ last'.ok
              /\ after.completed
              /\ after.id = before.id
              /\ after.description = before.description
              /\ after.deadline = before.deadline
              /\ after.sub_list = before.sub_list
              /\ Blank(todo_list', loc) = Blank(todo_list, loc)
              /\ before.completed => todo_list' = todo_list]_vars

\* the nested item "0:0" completed a second time, its parent not completed
C12_Witness ==
    /\ last.op = "complete" /\ last.ok
    /\ last.path = Some(<<"0", ":", "0">>)
    /\ last.pending = <<"completed">>
    /\ todo_list.items[1].sub_list[1].items[1].completed
    /\ ~todo_list.items[1].completed

RECURSIVE SubLists(_)
\* how many items of the tree have a sub-list
SubLists(list) ==
    IF list.items = <<>> THEN 0
    ELSE LET first == list.items[1]
         IN  (IF first.sub_list = None THEN 0 ELSE 1 + SubLists(first.sub_list[1]))
               + SubLists([list EXCEPT !.items = Tail(@)])

\* C13: an item has a sub-list only if an item was added under it: a step
\* after which more items have a sub-list than before is a successful
\* add_item with a parent path, whatever the other calls return.
C13_SubListOnlyByAdd ==
    [][SubLists(todo_list') > SubLists(todo_list) =>
          (last'.op = "add" /\ last'.ok /\ last'.path # None)]_vars

\* C19: in every list of the tree, root or nested, used_ids is the set of the
\* identifiers of the list's items, so remove_item never fails in release_id.
C19_UsedIdsAreItemIds ==
    /\ \A list \in AllLists(todo_list) :
           list.id_pool.used_ids = Range(Ids(list.items))
    /\ last.err.kind # "IdNotInUse"

\* an item was removed from a nested list that held two: the identifier left
\* in use is the one of the item that stays
C19_Witness ==
    /\ last.op = "remove" /\ last.ok
    /\ last.path = Some(<<"0", ":", "0">>)
    /\ Len(todo_list.items) = 1
    /\ todo_list.items[1].sub_list # None
    /\ Ids(todo_list.items[1].sub_list[1].items) = <<1>>
    /\ todo_list.items[1].sub_list[1].id_pool.used_ids = {1}

RECURSIVE Addresses(_)
\* the positions that lead to each list of the tree; <<>> is the root
Addresses(list) ==
    {<<>>} \cup UNION {{<<i - 1>> \o a : a \in Addresses(list.items[i].sub_list[1])} :
                         i \in {j \in 1..Len(list.items) : list.items[j].sub_list # None}}

\* C20: in every list, next_id is the number of identifiers in use plus the
\* number recycled, the identifiers ever issued to the list are exactly
\* 0..next_id-1, and next_id is at most the largest number of items the list
\* has held at one time.
C20_IdsStaySmall ==
    \A addr \in Addresses(todo_list) :
        LET id_pool == Descend(todo_list, addr).id_pool
        IN  /\ id_pool.next_id
                  = Cardinality(id_pool.used_ids) + Len(id_pool.recycled_ids)
            /\ Held(addr).issued = 0..(id_pool.next_id - 1)
            /\ id_pool.next_id <= Held(addr).peak

\* a nested list that has held two items and holds one: one identifier in
\* use, one recycled, next_id 2
C20_Witness ==
    /\ Len(todo_list.items) = 1
    /\ todo_list.items[1].sub_list # None
    /\ Len(todo_list.items[1].sub_list[1].items) = 1
    /\ todo_list.items[1].sub_list[1].id_pool.next_id = 2
    /\ Len(todo_list.items[1].sub_list[1].id_pool.recycled_ids) = 1
    /\ Held(<<0>>).peak = 2

(***************************************************************************)
(* Claims about listing, checked under ListSpec                            *)
(***************************************************************************)
\* the positions of the items of list that a listing has to show
Kept(list, show_complete) ==
    {k \in 1..Len(list.items) : show_complete \/ ~list.items[k].completed}

\* C14: list_items returns the items of the list's own level in insertion
\* order, without exactly the completed ones when SHOW_COMPLETE is false and
\* without none when it is true; it returns no nested item and leaves the
\* list as it is.
C14_ListItems ==
    [][last'.op = "list" =>
          LET shown == last'.shown
              kept == Kept(todo_list, SHOW_COMPLETE')
              at(i) == CHOOSE k \in kept : todo_list.items[k] = shown[i]
          IN  /\ todo_list' = todo_list
              /\ Len(shown) = Cardinality(kept)
              /\ \A i \in 1..Len(shown) :
                     \E k \in kept : todo_list.items[k] = shown[i]
              /\ \A i, j \in 1..Len(shown) : i < j => at(i) < at(j)]_vars

\* the flag is false: of two root items the completed first one, which has a
\* sub-list, is left out and the second is listed
C14_Witness ==
    /\ last.op = "list"
    /\ ~SHOW_COMPLETE
    /\ Len(todo_list.items) = 2
    /\ todo_list.items[1].completed
    /\ ~todo_list.items[2].completed
    /\ last.shown = <<todo_list.items[2]>>

\* the positions of the leading lines of the listed items among the lines
Heads(lines) == {n \in 1..Len(lines) : lines[n].depth = 0}

\* C15: todo_len is the number of items of the list's own level that are not
\* completed; nested items are not counted; it is the length of what
\* list_items returns when SHOW_COMPLETE is false.
C15_TodoLen ==
    /\ \A list \in AllLists(todo_list) :
           /\ todo_len(list) = Cardinality(Kept(list, FALSE))
           /\ todo_len(list) = Len(list_items(list, FALSE))
    /\ (last.op = "list" /\ last.shown # <<>>) =>
           /\ last.count = Some(Cardinality(Kept(todo_list, FALSE)))
           /\ ~SHOW_COMPLETE => last.count = Some(Len(last.shown))
           /\ Cardinality(Heads(last.lines)) = Len(last.shown)
           /\ \A i \in 1..Len(last.shown) :
                  LET head == CHOOSE n \in Heads(last.lines) :
                                  Cardinality({m \in Heads(last.lines) : m < n}) = i - 1
                      item == last.shown[i]
                  IN  last.lines[head].count =
                          IF item.sub_list = None THEN None
                          ELSE Some(Cardinality(Kept(item.sub_list[1], FALSE)))

\* all items are listed; the first is completed and has a sub-list of one
\* item that is not: the root counts 0, the sub-list 1
C15_Witness ==
    /\ last.op = "list"
    /\ SHOW_COMPLETE
    /\ Len(last.shown) = 1
    /\ last.count = Some(0)
    /\ last.lines[1].count = Some(1)
    /\ Len(last.lines) = 2

(***************************************************************************)
(* Claims about deadlines, checked under DeadlineSpec                      *)
(***************************************************************************)
\* the seconds the claim gives a token: magnitude times unit for the ten units
Contribution(token) ==
    LET n == decimal(token.magnitude)
    IN  IF token.suffix \in {<<"d">>, <<"d", "a", "y">>, <<"d", "a", "y", "s">>}
        THEN n * 24 * 60 * 60
        ELSE IF token.suffix \in {<<"h">>, <<"h", "o", "u", "r">>,
                                  <<"h", "o", "u", "r", "s">>}
        THEN n * 60 * 60
        ELSE IF token.suffix \in {<<"m">>, <<"m", "i", "n">>,
                                  <<"m", "i", "n", "u", "t", "e">>,
                                  <<"m", "i", "n", "u", "t", "e", "s">>}
        THEN n * 60
        ELSE 0

\* C17: for the text "+<offset>" every token of a magnitude and one of the
\* units d, day, days, h, hour, hours, m, min, minute, minutes adds magnitude
\* times unit, a token with another suffix adds nothing, and the result is
\* now plus the sum.
C17_OffsetSumsTokens ==
    \A tokens \in TokenLists :
        deadline_call.text = Some(TextOf(tokens)) =>
            /\ deadline_call.ok
            /\ deadline_call.at
                  = deadline_call.now
                      + Contribution(tokens[1])
                      + (IF Len(tokens) = 2 THEN Contribution(tokens[2]) ELSE 0)

(***************************************************************************)
(* Claims about invocations of the program, checked under RunSpec          *)
(***************************************************************************)
\* where in events the invocation p did this, 0 when it has not
At(p, kind) ==
    IF \E n \in 1..Len(events) : events[n] = <<p, kind>>
    THEN CHOOSE n \in 1..Len(events) : events[n] = <<p, kind>>
    ELSE 0

Done == \A p \in Procs : procs[p].pc = "done"

\* both invocations have loaded the file before either begins to save
BothLoadFirst == \A p, q \in Procs : At(p, "load") < At(q, "open")

\* C16: two invocations on one file are not isolated.  When both load before
\* either saves, the file after both saves is the state the last saver wrote,
\* and what the other invocation did is not in it; when one invocation ends
\* before the other begins, the second starts from what the first saved and
\* the file holds the state of the second.
C16_LastSaverWins ==
    \A p, q \in Procs :
        (Done /\ p # q /\ At(p, "write") < At(q, "write")) =>
            /\ BothLoadFirst =>
                   /\ file = Some(to_writer_pretty(procs[q].todo_list))
                   /\ procs[q].loaded # procs[p].todo_list
            /\ At(p, "write") < At(q, "load") =>
                   /\ file = Some(to_writer_pretty(procs[q].todo_list))
                   /\ procs[q].loaded = procs[p].todo_list

FailsToParse(deadline) ==
    deadline # None /\ \A now \in Nows : ~parse_deadline(deadline, now).ok

\* C18: a deadline text that does not parse never aborts add or edit.  add
\* fails only when its parent path does not resolve, and otherwise appends
\* the item without a deadline; edit of an item that exists overwrites the
\* description and leaves the item's deadline as it was; the error of
\* parse_deadline is never what the invocation returns.
C18_BadDeadlineIsDropped ==
    [][\A p \in Procs :
          (/\ procs[p].pc = "loaded"
           /\ procs'[p].pc # "loaded"
           /\ FailsToParse(procs[p].command.deadline)) =>
              LET command == procs[p].command
                  before == procs[p].todo_list
                  after == procs'[p].todo_list
                  resolves == \/ command.parent_path = None
                              \/ parse_path(before, command.parent_path[1]).ok
                  from == Addressed(before, command.parent_path)
                  to == Addressed(after, command.parent_path)
              IN  /\ procs'[p].err.kind # "InvalidDeadlineFormat"
                  /\ command.kind = "add" =>
                         IF resolves
                         THEN /\ procs'[p].pc = "ran"
                              /\ Len(to.items) = Len(from.items) + 1
                              /\ to.items[Len(to.items)].description = command.description
                              /\ to.items[Len(to.items)].deadline = None
                         ELSE procs'[p].pc = "failed"
                  /\ (command.kind = "edit" /\ resolves /\ command.id < Len(from.items)) =>
                         /\ procs'[p].pc = "ran"
                         /\ Len(to.items) = Len(from.items)
                         /\ to.items[command.id + 1].description = command.description
                         /\ to.items[command.id + 1].deadline
                                = from.items[command.id + 1].deadline]_vars

\* an item that has a deadline was given a new description by an edit whose
\* deadline text is "soon"
C18_Witness ==
    \E p \in Procs :
        /\ procs[p].pc = "ran"
        /\ procs[p].command.kind = "edit"
        /\ procs[p].command.parent_path = None
        /\ procs[p].command.deadline = Some(<<"s", "o", "o", "n">>)
        /\ procs[p].loaded.items[1].deadline # None
        /\ procs[p].loaded.items[1].description # procs[p].command.description
        /\ procs[p].todo_list.items[1].deadline = procs[p].loaded.items[1].deadline
        /\ procs[p].todo_list.items[1].description = procs[p].command.description


\* the operations the list offers to the command line
Operations == {"add_item", "edit_item", "complete_item", "remove_item",
               "list_items"}

\* the steps of one invocation, in their order
Stages == {<<"start", "loaded">>, <<"start", "failed">>,
           <<"loaded", "ran">>, <<"loaded", "failed">>,
           <<"ran", "opened">>, <<"opened", "done">>}

\* invocation p moves from load to its arm to the two steps of the save
InOrder(p) ==
    procs'[p].pc # procs[p].pc => <<procs[p].pc, procs'[p].pc>> \in Stages

\* the arm of invocation p that ends well has called one operation of the list
OneOperation(p) ==
    procs[p].pc = "loaded" /\ procs'[p].pc = "ran"
        => Len(SelectSeq(procs'[p].calls, LAMBDA c : c \in Operations)) = 1

\* an invocation whose load or arm fails leaves the file as it is, whatever
\* became of its list, and takes no further step
NoSaveOnError(p) ==
    /\ procs[p].pc # "failed" /\ procs'[p].pc = "failed" => file' = file
    /\ procs[p].pc = "failed" => procs'[p] = procs[p]

\* the file is written by the save of an invocation whose arm ended well
SavedBySaver == file' # file => \E p \in Procs : procs[p].pc \in {"ran", "opened"}

\* the order of the steps and the absence of a save after an error
OrderAndNoSaveOnError ==
    [][SavedBySaver /\ \A p \in Procs : InOrder(p) /\ NoSaveOnError(p)]_vars

\* C21: one invocation loads, then calls exactly one operation of the list,
\* then saves, in that order; when the load or the arm fails the invocation
\* ends without a save and the file is what it was, even if the list in
\* memory was changed
C21_LoadOperateSave ==
    [][/\ SavedBySaver
       /\ \A p \in Procs : InOrder(p) /\ OneOperation(p) /\ NoSaveOnError(p)]_vars

\* an arm has failed after changing the list in memory
FailedAfterChange ==
    \E p \in Procs : procs[p].pc = "failed" /\ procs[p].todo_list # procs[p].loaded

\* no arm of main fails after changing the list
NoFailedAfterChange == ~FailedAfterChange

\* the Edit arm has ended well without calling an operation of the list
EditCallsNoOperation ==
    \E p \in Procs :
        /\ procs[p].pc = "ran"
        /\ procs[p].command.kind = "edit"
        /\ procs[p].todo_list # procs[p].loaded
        /\ SelectSeq(procs[p].calls, LAMBDA c : c \in Operations) = <<>>

====
